---- MODULE Spec2Model ----
(***************************************************************************)
(* Model of the valuation engine of property-search:                       *)
(*   src/src/valuation.py  ValuationEngine, remove_outliers                *)
(*   src/src/cache.py      Cache (a Redis client)                          *)
(*   src/src/search.py     Property, PurchaseCategory, SearchParameters    *)
(*   src/app.py            App.get_property_valuations, /properties_data   *)
(*                                                                         *)
(* Python floats are modelled as exact rationals [n, d] (d > 0, lowest     *)
(* terms); binary rounding error is not modelled.  Prices and coordinates  *)
(* of listings are small integers.                                         *)
(***************************************************************************)
EXTENDS Integers, Sequences, FiniteSets, TLC

(***************************************************************************)
(* Bounds of the model                                                     *)
(***************************************************************************)
\* longest rental list find_properties returns
MaxRent == 2
\* longest purchase list drawn from the whole purchase catalog
MaxBuy == 2
\* ranking requests served in one behaviour
MaxRequests == 2
\* clock ticks in one behaviour
MaxTicks == 2
\* writes to Redis by other clients in one behaviour
MaxForeign == 1
\* longest rental list the outlier filter is applied to
MaxPrices == 4

(***************************************************************************)
(* Rational arithmetic (the model of float arithmetic)                     *)
(***************************************************************************)
Abs(a) == IF a < 0 THEN -a ELSE a

RECURSIVE GCD(_, _)
GCD(a, b) == IF b = 0 THEN a ELSE GCD(b, a % b)

Rat(n, d) ==
    LET s == IF d < 0 THEN -1 ELSE 1
        g == GCD(Abs(n), Abs(d))
    IN  [n |-> (s * n) \div g, d |-> (s * d) \div g]

RInt(i) == [n |-> i, d |-> 1]
RAdd(p, q) == Rat(p.n * q.d + q.n * p.d, p.d * q.d)
RSub(p, q) == Rat(p.n * q.d - q.n * p.d, p.d * q.d)
RMul(p, q) == Rat(p.n * q.n, p.d * q.d)
RDiv(p, q) == Rat(p.n * q.d, p.d * q.n)
RNeg(p) == [n |-> -p.n, d |-> p.d]
RLess(p, q) == p.n * q.d < q.n * p.d
RLeq(p, q) == p.n * q.d <= q.n * p.d
RIsZero(p) == p.n = 0

\* math.pow(b, e) for an integer exponent e >= 0
RECURSIVE RPow(_, _)
RPow(b, e) == IF e = 0 THEN RInt(1) ELSE RMul(b, RPow(b, e - 1))

\* round(x, 2): nearest multiple of 1/100, ties to the even hundredth
Round2(q) ==
    LET ip   == q.n \div q.d
        rem  == q.n % q.d
        h    == (100 * rem) \div q.d
        r2   == 2 * ((100 * rem) % q.d)
        up   == \/ r2 > q.d
                \/ r2 = q.d /\ (ip * 100 + h) % 2 = 1
    IN  Rat(ip * 100 + h + (IF up THEN 1 ELSE 0), 100)

RECURSIVE RSum(_)
RSum(s) == IF s = <<>> THEN RInt(0) ELSE RAdd(Head(s), RSum(Tail(s)))

(***************************************************************************)
(* Sequence helpers                                                        *)
(***************************************************************************)
RECURSIVE SeqsUpTo(_, _)
SeqsUpTo(S, k) ==
    IF k = 0 THEN {<<>>}
    ELSE LET shorter == SeqsUpTo(S, k - 1)
         IN  shorter \cup {Append(s, e) : s \in shorter, e \in S}

Reverse(s) == [i \in 1..Len(s) |-> s[Len(s) + 1 - i]]

\* the elements of s whose index is in keep, in their order in s
RECURSIVE SelectFrom(_, _, _)
SelectFrom(s, keep, i) ==
    IF i > Len(s) THEN <<>>
    ELSE IF i \in keep THEN <<s[i]>> \o SelectFrom(s, keep, i + 1)
    ELSE SelectFrom(s, keep, i + 1)

SelectIdx(s, keep) == SelectFrom(s, keep, 1)

(***************************************************************************)
(* src/src/search.py: PurchaseCategory, Property                           *)
(***************************************************************************)
\* PurchaseCategory(Enum): member name -> value
PurchaseCategoryValue(c) == IF c = "BUY" THEN "buy" ELSE "rent"

\* PurchaseCategory(v): value -> member; raises ValueError on any other v
PurchaseCategoryValid(v) == v \in {"buy", "rent"}

PurchaseCategoryOf(v) == IF v = "buy" THEN "BUY" ELSE "RENT"

\* Property(...)
Property(id, addr, price, lat, lon, cat, img) ==
    [identifier |-> id, display_address |-> addr, price |-> price,
     geo_location |-> [latitude |-> lat, longitude |-> lon],
     purchase_category |-> cat, image_url |-> img]

\* Valuation(...)
Valuation(prop, rent, roi) ==
    [property |-> prop, estimated_rental_income |-> rent,
     return_on_investment |-> roi]

\* image_url of a listing whose image is not a JSON-serializable value
\* (find_properties is a caller-supplied callable; json.dumps raises on it)
NotSerializable == "<bytes>"

\* rental listings the upstream search can return (image_url is "" for
\* rentals, search.py line 364)
R1 == Property("r1", "1 Rent Row", 2, 0, 0, "RENT", "")
R2 == Property("r2", "2 Rent Row", 4, 2, 2, "RENT", "")
R3 == Property("r3", "3 Rent Row", 6, 0, 2, "RENT", "")

\* a listing at the place of R3 with another price (not in RentCatalog)
R4 == Property("r4", "4 Rent Row", 8, 0, 2, "RENT", "")

RentCatalog == {R1, R2, R3}

\* purchase listings the upstream search can return; B1 and B3 differ in
\* identifier only, B2 lies outside every rental bounding box
B1 == Property("b1", "1 Sale St", 2, 1, 1, "BUY", "img")
B2 == Property("b2", "2 Sale St", 1, 3, 3, "BUY", "img")
B3 == Property("b3", "1 Sale St", 2, 1, 1, "BUY", "img")

BuyCatalog == {B1, B2, B3}

\* a purchase listing far above the price of the others, and a purchase
\* list in which its price is an outlier and one listing comes twice
B5 == Property("b5", "5 Sale St", 9, 1, 1, "BUY", "img")

OutlierBuyList == <<B1, B3, B1, B5>>

\* a purchase listing whose image cannot be serialized
BuyOdd == Property("b4", "4 Sale St", 3, 1, 1, "BUY", NotSerializable)

(***************************************************************************)
(* src/src/valuation.py: ValuationParameters                               *)
(***************************************************************************)
ValuationParameters(mind, maxd, len, rate, iinc, ided, rinc, rded) ==
    [min_deposit |-> mind, max_deposit |-> maxd, mortgage_length |-> len,
     mortgage_interest_rate |-> rate, investment_increase |-> iinc,
     investment_deduction |-> ided, rent_increase |-> rinc,
     rent_deduction |-> rded]

\* a scorable parameter set: r = 1200 / 1200 = 1, n = 12, cost = 1
VpNormal == ValuationParameters(0, 1, 1, 1200, 0, 0, 0, 0)
\* mortgage_interest_rate = 0
VpZeroRate == ValuationParameters(0, 1, 1, 0, 0, 0, 0, 0)
\* max_deposit + investment_increase - investment_deduction = 0
VpZeroCost == ValuationParameters(0, 1, 1, 1200, 0, 1, 0, 0)
\* mortgage_length = 0
VpZeroLength == ValuationParameters(0, 1, 0, 1200, 0, 0, 0, 0)
\* a second scorable set (larger deposit, rent adjustment)
VpOther == ValuationParameters(1, 2, 1, 1200, 1, 0, 1, 0)

AllVParams == {VpNormal, VpZeroRate, VpZeroCost, VpZeroLength, VpOther}

(***************************************************************************)
(* src/src/valuation.py: remove_outliers                                   *)
(***************************************************************************)
RECURSIVE InsertInt(_, _)
InsertInt(s, e) ==
    IF s = <<>> THEN <<e>>
    ELSE IF e < Head(s) THEN <<e>> \o s
    ELSE <<Head(s)>> \o InsertInt(Tail(s), e)

RECURSIVE SortInts(_)
SortInts(s) == IF s = <<>> THEN <<>> ELSE InsertInt(SortInts(Tail(s)), Head(s))

\* np.percentile(data, 25 * quarter), linear interpolation between the two
\* nearest ranks of the sorted data; data is not empty
Percentile(data, quarter) ==
    LET srt  == SortInts(data)
        pos4 == (Len(data) - 1) * quarter
        lo   == pos4 \div 4
        fr   == pos4 % 4
    IN  IF fr = 0 THEN RInt(srt[lo + 1])
        ELSE RAdd(RInt(srt[lo + 1]),
                  RMul(Rat(fr, 4), RInt(srt[lo + 2] - srt[lo + 1])))

\* the default threshold=1.5 as the fraction 3 / 2
\* a threshold of 0: the bounds are the quartiles themselves
Threshold_Zero == 0
ThresholdNum == 3
ThresholdDen == 2

\* the price float('nan') of a listing: json.loads reads NaN, and it is no
\* number (search.py line 455 takes the price of a cached listing as it is)
NaNPrice == -1

IsNaN(x) == x = NaNPrice

\* remove_outliers with exclusive bounds
remove_outliers_Exclusive(data) ==
    LET q1  == Percentile(data, 1)
        q3  == Percentile(data, 3)
        iqr == RSub(q3, q1)
        lower_bound == RSub(q1, RMul(iqr, Rat(ThresholdNum, ThresholdDen)))
        upper_bound == RAdd(q3, RMul(iqr, Rat(ThresholdNum, ThresholdDen)))
    IN  IF \E i \in 1..Len(data) : IsNaN(data[i]) THEN <<>>
        ELSE SelectIdx(data, {i \in 1..Len(data) :
                                /\ RLess(lower_bound, RInt(data[i]))
                                /\ RLess(RInt(data[i]), upper_bound)})

\* np.percentile of data that holds a nan is nan, so are both bounds, and
\* every comparison with them is False
remove_outliers(data) ==
    LET q1  == Percentile(data, 1)
        q3  == Percentile(data, 3)
        iqr == RSub(q3, q1)
        lower_bound == RSub(q1, RMul(iqr, Rat(ThresholdNum, ThresholdDen)))
        upper_bound == RAdd(q3, RMul(iqr, Rat(ThresholdNum, ThresholdDen)))
    IN  IF \E i \in 1..Len(data) : IsNaN(data[i]) THEN <<>>
        ELSE SelectIdx(data, {i \in 1..Len(data) :
                                /\ RLeq(lower_bound, RInt(data[i]))
                                /\ RLeq(RInt(data[i]), upper_bound)})

(***************************************************************************)
(* scipy.interpolate.griddata(points, values, (x, y), method='linear'):    *)
(* barycentric interpolation in the Delaunay triangle that contains the    *)
(* query; NaN outside the convex hull; QhullError (a RuntimeError) when    *)
(* the points do not span the plane.                                       *)
(***************************************************************************)
Orient(a, b, c) == (b[1] - a[1]) * (c[2] - a[2]) - (b[2] - a[2]) * (c[1] - a[1])

\* d lies strictly inside the circle through a, b, c
InCircle(a, b, c, d) ==
    LET adx == a[1] - d[1]
        ady == a[2] - d[2]
        bdx == b[1] - d[1]
        bdy == b[2] - d[2]
        cdx == c[1] - d[1]
        cdy == c[2] - d[2]
        ad  == adx * adx + ady * ady
        bd  == bdx * bdx + bdy * bdy
        cd  == cdx * cdx + cdy * cdy
        det == adx * (bdy * cd - bd * cdy) - ady * (bdx * cd - bd * cdx)
               + ad * (bdx * cdy - bdy * cdx)
    IN  IF Orient(a, b, c) > 0 THEN det > 0 ELSE det < 0

\* the points do not span the plane (all identical or all on one line)
Degenerate(points) ==
    \A i, j, k \in 1..Len(points) : Orient(points[i], points[j], points[k]) = 0

\* triangles a Delaunay triangulation of the points can contain
DelaunayTriangles(points) ==
    {t \in (1..Len(points)) \X (1..Len(points)) \X (1..Len(points)) :
        /\ t[1] < t[2] /\ t[2] < t[3]
        /\ Orient(points[t[1]], points[t[2]], points[t[3]]) # 0
        /\ \A m \in 1..Len(points) :
              ~InCircle(points[t[1]], points[t[2]], points[t[3]], points[m])}

\* the query q lies in the closed triangle t
InTriangle(points, t, q) ==
    LET a == points[t[1]]
        b == points[t[2]]
        c == points[t[3]]
        o == Orient(a, b, c)
    IN  /\ Orient(q, b, c) * o >= 0
        /\ Orient(a, q, c) * o >= 0
        /\ Orient(a, b, q) * o >= 0

\* barycentric interpolation of the values at the corners of t
Interpolate(points, values, t, q) ==
    LET a == points[t[1]]
        b == points[t[2]]
        c == points[t[3]]
        o == Orient(a, b, c)
    IN  RDiv(RAdd(RAdd(RMul(RInt(Orient(q, b, c)), values[t[1]]),
                       RMul(RInt(Orient(a, q, c)), values[t[2]])),
                  RMul(RInt(Orient(a, b, q)), values[t[3]])),
             RInt(o))

RMin(S) == CHOOSE v \in S : \A w \in S : RLeq(v, w)
RMax(S) == CHOOSE v \in S : \A w \in S : RLeq(w, v)

\* Qhull's triangulation of co-circular or duplicated points is not fixed
\* by the source: tie is "lo" or "hi", the smallest or the largest value a
\* Delaunay triangulation of the points can give at the query
\* (points and values of different lengths: ValueError, "different number
\* of values and points")
griddata(points, values, x, y, tie) ==
    IF Degenerate(points)
    THEN [kind |-> "QhullError", val |-> RInt(0)]
    ELSE IF Len(points) # Len(values)
    THEN [kind |-> "ValueError", val |-> RInt(0)]
    ELSE LET q    == <<x, y>>
             tris == {t \in DelaunayTriangles(points) : InTriangle(points, t, q)}
             vals == {Interpolate(points, values, t, q) : t \in tris}
         IN  IF tris = {}
             THEN [kind |-> "nan", val |-> RInt(0)]
             ELSE [kind |-> "value",
                   val |-> IF tie = "lo" THEN RMin(vals) ELSE RMax(vals)]

(***************************************************************************)
(* src/src/valuation.py: ValuationEngine.get_height, get_score             *)
(* An outcome is [exc, val]: exc = "none" and the returned value, or the   *)
(* name of the exception raised.                                           *)
(***************************************************************************)
Returned(v) == [exc |-> "none", val |-> v]
Raised(e, v) == [exc |-> e, val |-> v]

get_height(points, values, average_price, x, y, tie) ==
    LET g == griddata(points, values, x, y, tie)
    IN  IF g.kind = "QhullError" THEN Raised("QhullError", RInt(0))
        ELSE IF g.kind = "ValueError" THEN Returned(average_price)
        ELSE IF g.kind = "nan" THEN Returned(average_price)
        ELSE Returned(g.val)

\* get_score refusing a listing the deposit pays in full (p = 0) in place of
\* a zero cost
get_score_PerListing(points, values, average_price, property, valuation_params, tie) ==
    LET h == get_height(points, values, average_price,
                        property.geo_location.longitude,
                        property.geo_location.latitude, tie)
        rent_price == h.val
        deposit == valuation_params.max_deposit
        net_investment_increase == valuation_params.investment_increase
                                   - valuation_params.investment_deduction
        net_rent_increase == valuation_params.rent_increase
                             - valuation_params.rent_deduction
        r == Rat(valuation_params.mortgage_interest_rate, 12 * 100)
        n == valuation_params.mortgage_length * 12
        p == IF property.price - deposit > 0 THEN property.price - deposit ELSE 0
        pw == RPow(RAdd(RInt(1), r), n)
        monthly_mortgage == RDiv(RMul(RMul(RInt(p), r), pw), RSub(pw, RInt(1)))
        net_annual_income ==
            RMul(RSub(RAdd(rent_price, RInt(net_rent_increase)), monthly_mortgage),
                 RInt(12))
        cost == deposit + net_investment_increase
    IN  IF h.exc # "none" THEN Raised(h.exc, RInt(0))
        ELSE IF RIsZero(r) THEN Raised("ValueError", RInt(0))
        ELSE IF RIsZero(RSub(pw, RInt(1))) THEN Raised("ZeroDivisionError", RInt(0))
        ELSE IF cost = 0 \/ p = 0 THEN Raised("ValueError", RInt(0))
        ELSE Returned(Round2(RDiv(RMul(RInt(100), net_annual_income), RInt(cost))))

get_score(points, values, average_price, property, valuation_params, tie) ==
    LET h == get_height(points, values, average_price,
                        property.geo_location.longitude,
                        property.geo_location.latitude, tie)
        rent_price == h.val
        deposit == valuation_params.max_deposit
        net_investment_increase == valuation_params.investment_increase
                                   - valuation_params.investment_deduction
        net_rent_increase == valuation_params.rent_increase
                             - valuation_params.rent_deduction
        r == Rat(valuation_params.mortgage_interest_rate, 12 * 100)
        n == valuation_params.mortgage_length * 12
        p == IF property.price - deposit > 0 THEN property.price - deposit ELSE 0
        pw == RPow(RAdd(RInt(1), r), n)
        monthly_mortgage == RDiv(RMul(RMul(RInt(p), r), pw), RSub(pw, RInt(1)))
        net_annual_income ==
            RMul(RSub(RAdd(rent_price, RInt(net_rent_increase)), monthly_mortgage),
                 RInt(12))
        cost == deposit + net_investment_increase
    IN  IF h.exc # "none" THEN Raised(h.exc, RInt(0))
        ELSE IF RIsZero(r) THEN Raised("ValueError", RInt(0))
        ELSE IF RIsZero(RSub(pw, RInt(1))) THEN Raised("ZeroDivisionError", RInt(0))
        ELSE IF cost = 0 THEN Raised("ValueError", RInt(0))
        ELSE Returned(Round2(RDiv(RMul(RInt(100), net_annual_income), RInt(cost))))

(***************************************************************************)
(* sorted(valuations, key=lambda valuation: -valuation.return_on_investment)*)
(* valuation.py line 147, and                                              *)
(* valuations.sort(key=lambda v: v.return_on_investment, reverse=True)     *)
(* app.py line 96.  Python's sort is stable; reverse=True sorts the        *)
(* reversed list and reverses the outcome.                                 *)
(***************************************************************************)
\* insert e behind every element whose key is not larger
RECURSIVE InsertByKey(_, _, _)
InsertByKey(s, e, neg) ==
    LET KeyOf(v) == IF neg THEN RNeg(v.return_on_investment)
                    ELSE v.return_on_investment
    IN  IF s = <<>> THEN <<e>>
        ELSE IF RLess(KeyOf(e), KeyOf(Head(s))) THEN <<e>> \o s
        ELSE <<Head(s)>> \o InsertByKey(Tail(s), e, neg)

RECURSIVE StableSort(_, _)
StableSort(s, neg) ==
    IF s = <<>> THEN <<>>
    ELSE InsertByKey(StableSort(SubSeq(s, 1, Len(s) - 1), neg), s[Len(s)], neg)

\* sorted_valuations as an ascending sort that is reversed: ties swap
sorted_valuations_Reversed(valuations) == Reverse(StableSort(valuations, FALSE))

sorted_valuations(valuations) == StableSort(valuations, TRUE)

sort_reverse(valuations) == Reverse(StableSort(Reverse(valuations), FALSE))

(***************************************************************************)
(* JSON.  A value is [tag, body]:                                          *)
(*   "list"  a list, body = its items (dicts are records; an item that is  *)
(*           not a dict is a record with the one field nondict)            *)
(*   "text"  a str, body = <<v>> when the str is the JSON text of v and    *)
(*           <<>> when it is not JSON at all                               *)
(*   "null"  None, "other" any other value (a number, a dict)              *)
(***************************************************************************)
JList(items) == [tag |-> "list", body |-> items]
JNull == [tag |-> "null", body |-> <<>>]
JOther == [tag |-> "other", body |-> <<>>]
NotJson == [tag |-> "text", body |-> <<>>]

\* json.dumps(v), v serializable
json_dumps(v) == [tag |-> "text", body |-> <<v>>]

\* json.loads(s) raises TypeError unless s is a str, and JSONDecodeError
\* (a ValueError) unless the str is JSON text
json_loads(s) ==
    IF s.tag # "text" THEN Raised("TypeError", JNull)
    ELSE IF s.body = <<>> THEN Raised("ValueError", JNull)
    ELSE Returned(s.body[1])

(***************************************************************************)
(* src/src/valuation.py: _convert_valuations_to_payload,                   *)
(* _convert_payload_to_valuations                                          *)
(***************************************************************************)
\* PayloadObject with the return on investment in both numeric fields
PayloadObject_CopiedField(valuation) ==
    [identifier |-> valuation.property.identifier,
     display_address |-> valuation.property.display_address,
     price |-> valuation.property.price,
     geo_location |->
        [latitude |-> valuation.property.geo_location.latitude,
         longitude |-> valuation.property.geo_location.longitude],
     purchase_category |-> PurchaseCategoryValue(valuation.property.purchase_category),
     estimated_rental_income |-> valuation.return_on_investment,
     return_on_investment |-> valuation.return_on_investment,
     image_url |-> valuation.property.image_url]

PayloadObject(valuation) ==
    [identifier |-> valuation.property.identifier,
     display_address |-> valuation.property.display_address,
     price |-> valuation.property.price,
     geo_location |->
        [latitude |-> valuation.property.geo_location.latitude,
         longitude |-> valuation.property.geo_location.longitude],
     purchase_category |-> PurchaseCategoryValue(valuation.property.purchase_category),
     estimated_rental_income |-> valuation.estimated_rental_income,
     return_on_investment |-> valuation.return_on_investment,
     image_url |-> valuation.property.image_url]

_convert_valuations_to_payload(valuations) ==
    IF \E i \in 1..Len(valuations) :
          valuations[i].property.image_url = NotSerializable
    THEN Raised("TypeError", JNull)
    ELSE Returned(json_dumps(JList([i \in 1..Len(valuations) |->
                                        PayloadObject(valuations[i])])))

\* the checks of lines 190-211 on one item, and PurchaseCategory(...) of
\* line 221
ObjectValid(obj) ==
    /\ "nondict" \notin DOMAIN obj
    /\ "identifier" \in DOMAIN obj
    /\ "display_address" \in DOMAIN obj
    /\ "price" \in DOMAIN obj
    /\ "geo_location" \in DOMAIN obj
    /\ "latitude" \in DOMAIN obj.geo_location
    /\ "longitude" \in DOMAIN obj.geo_location
    /\ "purchase_category" \in DOMAIN obj
    /\ "estimated_rental_income" \in DOMAIN obj
    /\ "return_on_investment" \in DOMAIN obj
    /\ "image_url" \in DOMAIN obj
    /\ PurchaseCategoryValid(obj.purchase_category)

ValuationOfObject(obj) ==
    Valuation(Property(obj.identifier, obj.display_address, obj.price,
                       obj.geo_location.latitude, obj.geo_location.longitude,
                       PurchaseCategoryOf(obj.purchase_category), obj.image_url),
              obj.estimated_rental_income, obj.return_on_investment)

_convert_payload_to_valuations(payload) ==
    LET output == json_loads(payload)
    IN  IF output.exc # "none" THEN Raised(output.exc, <<>>)
        ELSE IF output.val.tag # "list" THEN Raised("ValueError", <<>>)
        ELSE IF \E i \in 1..Len(output.val.body) : ~ObjectValid(output.val.body[i])
        THEN Raised("ValueError", <<>>)
        ELSE Returned([i \in 1..Len(output.val.body) |->
                          ValuationOfObject(output.val.body[i])])

(***************************************************************************)
(* src/src/search.py: SearchParameters, to_buy, to_rent, to_url            *)
(***************************************************************************)
\* a str is the sequence of its pieces (a piece is a run of characters that
\* is never split); + and f-strings concatenate
\* the values of the enums of search.py, in the order sorted() gives them
ValueOrder ==
    <<"auction", "bungalow", "detached", "flat", "furnished", "garden",
      "land", "newHome", "park-home", "parking", "partFurnished",
      "private-halls", "retirement", "semi-detached", "sharedOwnership",
      "terraced", "unfurnished">>

\* sorted(list(members), key=lambda x: x.value), as the list of the values
SortedValues(members) == SelectSeq(ValueOrder, LAMBDA v : v \in members)

\* ','.join(values)
RECURSIVE JoinComma(_)
JoinComma(values) ==
    IF values = <<>> THEN <<>>
    ELSE IF Len(values) = 1 THEN values
    ELSE <<Head(values), ",">> \o JoinComma(Tail(values))

\* a limit that is None (IntRange admits no negative limit); it is kept as ""
NoLimit == -1

\* f"{v}" of a limit: its digits, or nothing for ""
Fmt(v) == IF v = NoLimit THEN <<>> ELSE <<ToString(v)>>

\* SearchParameters(...): name and id are strs, furnish a set of values
SearchParameters(name, id, furnish, category) ==
    [location_name |-> name, location_id |-> id, radius |-> <<"0.25">>,
     min_price |-> 0, max_price |-> 500000,
     min_bedrooms |-> 1, max_bedrooms |-> 3,
     max_days_since_added |-> NoLimit,
     property_types |-> SortedValues({"flat", "detached"}),
     must_have |-> SortedValues({}),
     dont_show |-> SortedValues({"sharedOwnership"}),
     furnish_types |-> SortedValues(furnish),
     purchase_category |-> category]

to_buy(params) == [params EXCEPT !.purchase_category = "BUY"]

to_rent(params) == [params EXCEPT !.purchase_category = "RENT"]

_url_property_for_sale(params) ==
    [url |-> <<"https://www.rightmove.co.uk/property-for-sale/find.html?">>
             \o <<"locationIdentifier=">> \o params.location_id \o <<"&">>
             \o <<"radius=">> \o params.radius \o <<"&">>
             \o <<"minPrice=">> \o Fmt(params.min_price) \o <<"&">>
             \o <<"maxPrice=">> \o Fmt(params.max_price) \o <<"&">>
             \o <<"minBedrooms=">> \o Fmt(params.min_bedrooms) \o <<"&">>
             \o <<"maxBedrooms=">> \o Fmt(params.max_bedrooms) \o <<"&">>
             \o <<"maxDaysSinceAdded=">> \o Fmt(params.max_days_since_added) \o <<"&">>
             \o <<"propertyTypes=">> \o JoinComma(params.property_types) \o <<"&">>
             \o <<"mustHave=">> \o JoinComma(params.must_have) \o <<"&">>
             \o <<"dontShow=">> \o JoinComma(params.dont_show) \o <<"&">>
             \o <<"includeSSTC=false">>,
     purchase_category |-> "BUY"]

_url_property_to_rent(params) ==
    [url |-> <<"https://www.rightmove.co.uk/property-to-rent/find.html?">>
             \o <<"locationIdentifier=">> \o params.location_id \o <<"&">>
             \o <<"radius=">> \o params.radius \o <<"&">>
             \o <<"minBedrooms=">> \o Fmt(params.min_bedrooms) \o <<"&">>
             \o <<"maxBedrooms=">> \o Fmt(params.max_bedrooms) \o <<"&">>
             \o <<"maxDaysSinceAdded=">> \o Fmt(params.max_days_since_added) \o <<"&">>
             \o <<"propertyTypes=">> \o JoinComma(params.property_types) \o <<"&">>
             \o <<"mustHave=">> \o JoinComma(params.must_have) \o <<"&">>
             \o <<"dontShow=">> \o JoinComma(params.dont_show) \o <<"&">>
             \o <<"furnishTypes=">> \o JoinComma(params.furnish_types) \o <<"&">>
             \o <<"includeLetAgreed=true">>,
     purchase_category |-> "RENT"]

to_url(params) ==
    IF params.purchase_category = "BUY" THEN _url_property_for_sale(params)
    ELSE _url_property_to_rent(params)

\* URL.value() without index and page size
URL_value(url) == url.url

\* ValuationParameters.__repr__
ValuationParameters_repr(vp) ==
    <<"ValuationParameters(",
      "min_deposit=", ToString(vp.min_deposit), ", ",
      "max_deposit=", ToString(vp.max_deposit), ", ",
      "mortgage_length=", ToString(vp.mortgage_length), ", ",
      "mortgage_interest_rate=", ToString(vp.mortgage_interest_rate), ", ",
      "investment_increase=", ToString(vp.investment_increase), ", ",
      "investment_deduction=", ToString(vp.investment_deduction), ", ",
      "rent_increase=", ToString(vp.rent_increase), ", ",
      "rent_deduction=", ToString(vp.rent_deduction), ")">>

\* CacheKey made of the URL alone
CacheKey_UrlOnly(params, valuation_params) ==
    <<"valuation:">> \o URL_value(to_url(to_buy(params))) \o <<"-">>

\* f"valuation:{url.value()}-{valuation_params}", url of params.to_buy()
CacheKey(params, valuation_params) ==
    <<"valuation:">> \o URL_value(to_url(to_buy(params))) \o <<"-">>
    \o ValuationParameters_repr(valuation_params)

AllFurnishTypes == {"furnished", "partFurnished", "unfurnished"}

SpLondon == SearchParameters(<<"London">>, <<"REGION^87490">>, AllFurnishTypes, "BUY")
SpLondonRent == SearchParameters(<<"London">>, <<"REGION^87490">>, AllFurnishTypes, "RENT")
SpLeeds == SearchParameters(<<"Leeds">>, <<"REGION^787">>, AllFurnishTypes, "BUY")

AllSearchParams == {SpLondon, SpLondonRent, SpLeeds}

(***************************************************************************)
(* State                                                                   *)
(***************************************************************************)
VARIABLES
    redis,                \* the Redis store: key -> [value, exp, by, src]
    now,                  \* the clock of the Redis server, in seconds
    self_points,          \* ValuationEngine.points
    self_values,          \* ValuationEngine.values
    self_average_price,   \* ValuationEngine.average_price
    tie,                  \* how Qhull resolves ambiguous triangulations
    req,                  \* the ranking requests in flight, per worker
    served,               \* ranking requests started so far
    ticks,                \* clock ticks so far
    foreign,              \* writes to Redis by other clients so far
    expired               \* history: keys whose entry of the engine expired

vars == <<redis, now, self_points, self_values, self_average_price, tie,
          req, served, ticks, foreign, expired>>

\* worker threads of the Flask server
Workers == {1, 2}

\* TTL as 30 seconds instead of 30 minutes
TTL_Seconds == 30

\* the expiry rank_properties passes to Cache.set: 30 * 60
TTL == 1800
\* seconds per clock tick
TickSeconds == 900
\* exp of an entry written without expiry
Persist == -1

NoReturn == [outcome |-> "none", val |-> <<>>, exc |-> "none"]

IdleRequest ==
    [pc |-> "idle", params |-> SpLondon, valuation_params |-> VpNormal,
     key |-> CacheKey(SpLondon, VpNormal), payload |-> JNull,
     rent_properties |-> <<>>, buy_properties |-> <<>>, valuations |-> <<>>,
     idx |-> 0, ret |-> NoReturn, response |-> NoReturn,
     \* history of the request, for the properties
     asked |-> SpLondon, get |-> "none", save |-> "none", finds |-> <<>>, sets |-> 0,
     valued |-> 0, failed |-> <<>>]

Init ==
    /\ redis = <<>>
    /\ now = 0
    /\ self_points = <<>>
    /\ self_values = <<>>
    /\ self_average_price = RInt(0)
    /\ tie \in {"lo", "hi"}
    /\ req = [i \in Workers |-> IdleRequest]
    /\ served = 0
    /\ ticks = 0
    /\ foreign = 0
    /\ expired = {}

\* the entry of key k a GET sees: expired entries are gone
Live(k) == k \in DOMAIN redis /\ (redis[k].exp = Persist \/ now < redis[k].exp)

\* redis_client.set(key, value, ex=expiry)
\* (by and src are history: the writer, and the list the value was made of)
RedisSet(store, k, v, exp, who, src) ==
    [x \in DOMAIN store \cup {k} |->
        IF x = k THEN [value |-> v, exp |-> exp, by |-> who, src |-> src]
        ELSE store[x]]

(***************************************************************************)
(* src/src/cache.py: Cache.get, Cache.set                                  *)
(***************************************************************************)
\* Cache.get(key): None when the key is absent, else json.loads of the value
Cache_get(k) ==
    IF ~Live(k) THEN Returned(JNull) ELSE json_loads(redis[k].value)

\* Cache.set(key, value, expiry)
Cache_set(k, value, expiry, src) ==
    RedisSet(redis, k, value, now + expiry, "engine", src)

(***************************************************************************)
(* ValuationEngine.rank_properties, one action per step of a request.      *)
(* Each action records what the environment did in the history fields of   *)
(* the request (get, finds, save, ...) and hands the request to the step   *)
(* of the code.                                                            *)
(***************************************************************************)
Return(r, v) == [r EXCEPT !.pc = "done",
                          !.ret = [outcome |-> "ok", val |-> v, exc |-> "none"]]

Raise(r, e) == [r EXCEPT !.pc = "done",
                         !.ret = [outcome |-> "raised", val |-> <<>>, exc |-> e]]

\* lines 82-86: a request arrives; the key is derived (to_buy() mutates params)
Start(i, params, valuation_params) ==
    /\ req[i].pc = "idle"
    /\ served < MaxRequests
    /\ served' = served + 1
    /\ req' = [req EXCEPT ![i] =
                 [IdleRequest EXCEPT
                    !.pc = "cache_get",
                    !.params = to_buy(params),
                    !.asked = params,
                    !.valuation_params = valuation_params,
                    !.key = CacheKey(params, valuation_params)]]
    /\ UNCHANGED <<redis, now, self_points, self_values, self_average_price,
                   tie, ticks, foreign, expired>>

\* what the lookup of key k meets: "raised" (the Redis call fails),
\* "malformed" (the value does not deserialize), "miss" or "hit"
LookupOutcome(k, transport) ==
    IF transport THEN "raised"
    ELSE IF ~Live(k) THEN "miss"
    ELSE LET v == redis[k].value
         IN  IF v.body = <<>> THEN "malformed"
             ELSE IF v.body[1].tag = "null" THEN "miss"
             ELSE IF v.body[1].tag # "text" \/ v.body[1].body = <<>> THEN "malformed"
             ELSE IF v.body[1].body[1].tag # "list" THEN "malformed"
             ELSE IF \E n \in 1..Len(v.body[1].body[1].body) :
                        ~ObjectValid(v.body[1].body[1].body[n])
             THEN "malformed"
             ELSE "hit"

\* AfterLookup without the return of line 94: a hit goes on to the fetches
AfterLookup_NoReturn(r, transport, got) ==
    [r EXCEPT !.pc = "fetch_rent",
              !.payload = IF transport \/ got.exc # "none" THEN @ ELSE got.val]

\* AfterLookup catching nothing: a failure of the lookup leaves the request
AfterLookup_Propagates(r, transport, got) ==
    LET conv == _convert_payload_to_valuations(got.val)
    IN  IF transport THEN Raise(r, "ConnectionError")
        ELSE IF got.exc # "none" THEN Raise(r, got.exc)
        ELSE IF got.val.tag = "null" THEN [r EXCEPT !.pc = "fetch_rent"]
        ELSE IF conv.exc # "none" THEN Raise([r EXCEPT !.payload = got.val], conv.exc)
        ELSE Return([r EXCEPT !.payload = got.val], conv.val)

\* lines 90-98: try: payload = self._cache.get(key) ... except Exception
AfterLookup(r, transport, got) ==
    LET conv == _convert_payload_to_valuations(got.val)
    IN  IF transport \/ got.exc # "none"
        THEN [r EXCEPT !.pc = "fetch_rent"]
        ELSE IF got.val.tag = "null"
        THEN [r EXCEPT !.pc = "fetch_rent"]
        ELSE IF conv.exc # "none"
        THEN [r EXCEPT !.pc = "fetch_rent", !.payload = got.val]
        ELSE Return([r EXCEPT !.payload = got.val], conv.val)

\* the cache lookup; transport is TRUE when the Redis call fails
CacheLookup(i, transport) ==
    /\ req[i].pc = "cache_get"
    /\ req' = [req EXCEPT ![i] =
          AfterLookup([req[i] EXCEPT !.get = LookupOutcome(req[i].key, transport)],
                      transport, Cache_get(req[i].key))]
    /\ UNCHANGED <<redis, now, self_points, self_values,
                   self_average_price, tie, served, ticks, foreign, expired>>

\* AfterFetchRent going on to the purchase search when the rental search fails
AfterFetchRent_Continues(r, ok, listings) ==
    [r EXCEPT !.pc = "fetch_buy", !.params = to_rent(@),
              !.rent_properties = IF ok THEN listings ELSE <<>>]

\* line 102: rent_properties = find_properties(params.to_rent())
AfterFetchRent(r, ok, listings) ==
    IF ok THEN [r EXCEPT !.pc = "fetch_buy", !.params = to_rent(@),
                         !.rent_properties = listings]
    ELSE Raise([r EXCEPT !.params = to_rent(@)], "UpstreamFetchError")

\* the rental fetch; ok is FALSE when find_properties raises
FetchRent(i, ok, listings) ==
    /\ req[i].pc = "fetch_rent"
    /\ req' = [req EXCEPT ![i] =
          AfterFetchRent([req[i] EXCEPT !.finds = Append(@,
                              [category |-> to_rent(req[i].params).purchase_category,
                               params |-> to_rent(req[i].params), ok |-> ok,
                               listings |-> IF ok THEN listings ELSE <<>>])],
                         ok, listings)]
    /\ UNCHANGED <<redis, now, self_points, self_values,
                   self_average_price, tie, served, ticks, foreign, expired>>

\* AfterFetchBuy ranking on the rental data alone when the fetch fails
AfterFetchBuy_Partial(r, ok, listings) ==
    [r EXCEPT !.pc = "get_valuation", !.params = to_buy(@),
              !.buy_properties = IF ok THEN listings ELSE <<>>]

\* line 103: buy_properties = find_properties(params.to_buy())
AfterFetchBuy(r, ok, listings) ==
    IF ok THEN [r EXCEPT !.pc = "get_valuation", !.params = to_buy(@),
                         !.buy_properties = listings]
    ELSE Raise([r EXCEPT !.params = to_buy(@)], "UpstreamFetchError")

\* the purchase fetch; ok is FALSE when find_properties raises
FetchBuy(i, ok, listings) ==
    /\ req[i].pc = "fetch_buy"
    /\ req' = [req EXCEPT ![i] =
          AfterFetchBuy([req[i] EXCEPT !.finds = Append(@,
                              [category |-> to_buy(req[i].params).purchase_category,
                               params |-> to_buy(req[i].params), ok |-> ok,
                               listings |-> IF ok THEN listings ELSE <<>>])],
                        ok, listings)]
    /\ UNCHANGED <<redis, now, self_points, self_values,
                   self_average_price, tie, served, ticks, foreign, expired>>

(***************************************************************************)
(* ValuationEngine._get_valuation                                          *)
(***************************************************************************)
SeqRange(s) == {s[i] : i \in 1..Len(s)}

SetMin(S) == CHOOSE v \in S : \A w \in S : v <= w
SetMax(S) == CHOOSE v \in S : \A w \in S : w <= v

\* lines 120-122: the rental listings whose price survives remove_outliers
FilteredRentals(rent_properties) ==
    LET rent_prices == [i \in 1..Len(rent_properties) |-> rent_properties[i].price]
        filtered_rent_prices == SeqRange(remove_outliers(rent_prices))
    IN  SelectIdx(rent_properties,
                  {i \in 1..Len(rent_properties) :
                      rent_properties[i].price \in filtered_rent_prices})

\* lines 125-128: the coordinates of the rental listings
RentalPoints(rent_properties) ==
    [i \in 1..Len(rent_properties) |->
        <<rent_properties[i].geo_location.longitude,
          rent_properties[i].geo_location.latitude>>]

\* lines 129-131: the corners of the bounding box of the rental listings
Corners(rent_properties) ==
    LET lons == {rent_properties[i].geo_location.longitude : i \in 1..Len(rent_properties)}
        lats == {rent_properties[i].geo_location.latitude : i \in 1..Len(rent_properties)}
        min_lon == SetMin(lons)
        max_lon == SetMax(lons)
        min_lat == SetMin(lats)
        max_lat == SetMax(lats)
    IN  << <<min_lon, min_lat>>, <<max_lon, min_lat>>,
           <<min_lon, max_lat>>, <<max_lon, max_lat>> >>

\* lines 125-131: the sample points and the corners of their bounding box
SamplePoints(rent_properties) ==
    RentalPoints(rent_properties) \o Corners(rent_properties)

\* line 133
AveragePrice(rent_properties) ==
    RDiv(RSum([i \in 1..Len(rent_properties) |-> RInt(rent_properties[i].price)]),
         RInt(Len(rent_properties)))

\* lines 132-134: the sample prices and the average at the four corners
SampleValues(rent_properties) ==
    LET average_price == AveragePrice(rent_properties)
    IN  [i \in 1..Len(rent_properties) |-> RInt(rent_properties[i].price)]
        \o <<average_price, average_price, average_price, average_price>>

\* BuildEstimator without the short-circuit of line 117: min() of no listing
BuildEstimator_NoShortCircuit(r) ==
    LET kept == FilteredRentals(r.rent_properties)
    IN  IF Len(r.rent_properties) = 0 \/ Len(kept) = 0 THEN Raise(r, "ValueError")
        ELSE [r EXCEPT !.pc = "valuing", !.rent_properties = kept,
                       !.valuations = <<>>, !.idx = 1]

\* BuildEstimator passing the purchase listings through remove_outliers too
BuildEstimator_FiltersPurchases(r) ==
    LET kept == FilteredRentals(r.rent_properties)
    IN  IF Len(r.rent_properties) = 0 \/ Len(r.buy_properties) = 0
        THEN [r EXCEPT !.pc = "save", !.valuations = <<>>]
        ELSE IF Len(kept) = 0 THEN Raise(r, "ValueError")
        ELSE [r EXCEPT !.pc = "valuing", !.rent_properties = kept,
                       !.buy_properties = FilteredRentals(@),
                       !.valuations = <<>>, !.idx = 1]

\* lines 116-134 for the request: the short-circuit on empty input
\* (line 117), else the listings that survive the filter; min() of no
\* listing raises ValueError (line 129)
BuildEstimator(r) ==
    LET kept == FilteredRentals(r.rent_properties)
    IN  IF Len(r.rent_properties) = 0 \/ Len(r.buy_properties) = 0
        THEN [r EXCEPT !.pc = "save", !.valuations = <<>>]
        ELSE IF Len(kept) = 0 THEN Raise(r, "ValueError")
        ELSE [r EXCEPT !.pc = "valuing", !.rent_properties = kept,
                       !.valuations = <<>>, !.idx = 1]

\* lines 116-134: the estimator is built into the attributes of the engine
GetValuation(i) ==
    LET r == BuildEstimator(req[i])
    IN  /\ req[i].pc = "get_valuation"
        /\ req' = [req EXCEPT ![i] = r]
        /\ IF r.pc = "valuing"
           THEN /\ self_points' = SamplePoints(r.rent_properties)
                /\ self_values' = SampleValues(r.rent_properties)
                /\ self_average_price' = AveragePrice(r.rent_properties)
           ELSE UNCHANGED <<self_points, self_values, self_average_price>>
        /\ UNCHANGED <<redis, now, tie, served, ticks, foreign, expired>>

\* AfterValuing without the except of line 144
AfterValuing_NoExcept(r, property, h, s) ==
    LET exc == IF h.exc # "none" THEN h.exc ELSE s.exc
    IN  IF exc = "none"
        THEN [r EXCEPT !.idx = @ + 1,
                       !.valuations = Append(@, Valuation(property, h.val, s.val))]
        ELSE Raise(r, exc)

\* lines 138-145: try: valuations.append(Valuation(...)) except ValueError;
\* h and s are the outcomes of get_height and get_score for the listing
AfterValuing(r, property, h, s) ==
    LET exc == IF h.exc # "none" THEN h.exc ELSE s.exc
    IN  IF exc = "none"
        THEN [r EXCEPT !.idx = @ + 1,
                       !.valuations = Append(@, Valuation(property, h.val, s.val))]
        ELSE IF exc = "ValueError" THEN [r EXCEPT !.idx = @ + 1]
        ELSE Raise(r, exc)

\* one pass of the loop over buy_properties
ValueOne(i) ==
    LET r == req[i]
        property == r.buy_properties[r.idx]
        h == get_height(self_points, self_values, self_average_price,
                        property.geo_location.longitude,
                        property.geo_location.latitude, tie)
        s == get_score(self_points, self_values, self_average_price,
                       property, r.valuation_params, tie)
    IN  /\ r.pc = "valuing"
        /\ r.idx <= Len(r.buy_properties)
        /\ req' = [req EXCEPT ![i] =
              AfterValuing([r EXCEPT !.valued = @ + 1,
                                     !.failed = IF h.exc = "none" /\ s.exc = "none"
                                                THEN @ ELSE Append(@, r.idx)],
                           property, h, s)]
        /\ UNCHANGED <<redis, now, self_points, self_values,
                       self_average_price, tie, served, ticks, foreign, expired>>

\* line 147: the loop is over, the valuations are ranked
Rank(i) ==
    LET r == req[i]
    IN  /\ r.pc = "valuing"
        /\ r.idx > Len(r.buy_properties)
        /\ req' = [req EXCEPT ![i] =
                     [r EXCEPT !.pc = "save",
                               !.valuations = sorted_valuations(@)]]
        /\ UNCHANGED <<redis, now, self_points, self_values,
                       self_average_price, tie, served, ticks, foreign, expired>>

\* AfterSave without the except of line 110
AfterSave_Propagates(r, payload, transport) ==
    IF payload.exc # "none" THEN Raise(r, payload.exc)
    ELSE IF transport THEN Raise(r, "ConnectionError")
    ELSE Return(r, r.valuations)

\* lines 105-114: try: payload = ...; self._cache.set(...) except Exception;
\* return valuations.  stored is TRUE when the write reached Redis
AfterSave(r, payload, transport) == Return(r, r.valuations)

\* SetCalled of an engine that caches a ranking only when it holds a valuation
SetCalled_NonEmpty(payload) ==
    payload.exc = "none" /\ payload.val.body[1].body # <<>>

\* line 109 is reached when the payload could be built
SetCalled(payload) == payload.exc = "none"

\* the best-effort cache write and the return; transport is TRUE when the
\* Redis call fails
Save(i, transport) ==
    LET r == req[i]
        payload == _convert_valuations_to_payload(r.valuations)
        outcome == IF \E n \in 1..Len(r.valuations) :
                         r.valuations[n].property.image_url = NotSerializable
                   THEN "dumps_failed"
                   ELSE IF transport THEN "set_failed" ELSE "stored"
    IN  /\ r.pc = "save"
        /\ req' = [req EXCEPT ![i] =
              AfterSave([r EXCEPT !.save = outcome,
                                  !.sets = IF SetCalled(payload) THEN @ + 1 ELSE @],
                        payload, transport)]
        /\ IF SetCalled(payload) /\ ~transport
           THEN redis' = Cache_set(r.key, json_dumps(payload.val), TTL, r.valuations)
           ELSE UNCHANGED redis
        /\ UNCHANGED <<now, self_points, self_values, self_average_price,
                       tie, served, ticks, foreign, expired>>

(***************************************************************************)
(* src/app.py: App.get_property_valuations and the /properties_data route  *)
(***************************************************************************)
\* lines 139-145: any exception of rank_properties becomes an empty list
get_property_valuations(ret) == IF ret.outcome = "raised" THEN <<>> ELSE ret.val

\* lines 95-114: the endpoint sorts the list again and answers
Respond(i) ==
    LET r == req[i]
    IN  /\ r.pc = "done"
        /\ req' = [req EXCEPT ![i] =
              [r EXCEPT !.pc = "responded",
                        !.response = [outcome |-> "ok",
                                      val |-> sort_reverse(get_property_valuations(r.ret)),
                                      exc |-> "none"]]]
        /\ UNCHANGED <<redis, now, self_points, self_values,
                       self_average_price, tie, served, ticks, foreign, expired>>

\* the worker is free for the next request
Finish(i) ==
    /\ req[i].pc = "responded"
    /\ req' = [req EXCEPT ![i] = IdleRequest]
    /\ UNCHANGED <<redis, now, self_points, self_values, self_average_price,
                   tie, served, ticks, foreign, expired>>

(***************************************************************************)
(* The environment: the clock of Redis and other clients of Redis          *)
(***************************************************************************)
\* time passes; Redis drops the entries whose expiry has been reached
\* (a request reads the clock and the store only in its lookup and its
\* write, so steps of the environment in between are left out)
EnvTurn == \A i \in Workers : req[i].pc \in {"idle", "save"}

Tick ==
    /\ EnvTurn
    /\ ticks < MaxTicks
    /\ ticks' = ticks + 1
    /\ now' = now + TickSeconds
    /\ redis' = [k \in {x \in DOMAIN redis :
                          redis[x].exp = Persist \/ now + TickSeconds < redis[x].exp}
                   |-> redis[k]]
    /\ expired' = expired \cup {k \in DOMAIN redis :
                                    /\ redis[k].by = "engine"
                                    /\ redis[k].exp <= now + TickSeconds}
    /\ UNCHANGED <<self_points, self_values, self_average_price, tie, req,
                   served, foreign>>

\* a well-formed payload object
GoodObject == PayloadObject(Valuation(B1, RInt(3), Rat(724, 100)))

\* a payload object without its image_url
ObjectNoImage ==
    [identifier |-> "b1", display_address |-> "1 Sale St", price |-> 2,
     geo_location |-> [latitude |-> 1, longitude |-> 1],
     purchase_category |-> "buy", estimated_rental_income |-> RInt(3),
     return_on_investment |-> Rat(724, 100)]

\* values other clients can leave under a key
ForeignValues ==
    { NotJson,
      json_dumps(JNull),
      json_dumps(JList(<<GoodObject>>)),
      json_dumps(json_dumps(JOther)),
      json_dumps(json_dumps(JList(<<[nondict |-> "5"]>>))),
      json_dumps(json_dumps(JList(<<GoodObject, ObjectNoImage>>))),
      json_dumps(json_dumps(JList(<<[GoodObject EXCEPT !.purchase_category = "lease"]>>))),
      json_dumps(json_dumps(JList(<<[GoodObject EXCEPT !.purchase_category = "rent"]>>))),
      json_dumps(json_dumps(JList(<<GoodObject>>))) }

\* another client of the same Redis writes v under k, without expiry
ForeignWrite(k, v) ==
    /\ EnvTurn
    /\ foreign < MaxForeign
    /\ foreign' = foreign + 1
    /\ redis' = RedisSet(redis, k, v, Persist, "foreign", <<>>)
    /\ UNCHANGED <<now, self_points, self_values, self_average_price, tie,
                   req, served, ticks, expired>>

(***************************************************************************)
(* Spec: the life of ranking requests served one after another, against a  *)
(* cache that can fail, expire and be written by others                    *)
(***************************************************************************)
LifeSearchParams == {SpLondon, SpLeeds}
LifeVParams == {VpNormal}
LifeRentLists == {<<>>, <<R1, R2>>}
LifeBuyLists == {<<>>, <<B2, B1>>, <<BuyOdd>>}

Next ==
    \/ \E sp \in LifeSearchParams, vp \in LifeVParams : Start(1, sp, vp)
    \/ \E transport \in BOOLEAN : CacheLookup(1, transport)
    \/ \E ok \in BOOLEAN, l \in LifeRentLists : FetchRent(1, ok, l)
    \/ \E ok \in BOOLEAN, l \in LifeBuyLists : FetchBuy(1, ok, l)
    \/ GetValuation(1)
    \/ ValueOne(1)
    \/ Rank(1)
    \/ \E transport \in BOOLEAN : Save(1, transport)
    \/ Respond(1)
    \/ Finish(1)
    \/ Tick
    \/ \E sp \in LifeSearchParams, vp \in LifeVParams, v \in ForeignValues :
          ForeignWrite(CacheKey(sp, vp), v)

Spec == Init /\ [][Next]_vars

(***************************************************************************)
(* SpecBatch: one computing request over every rental and purchase list    *)
(* within the bounds and every parameter set, followed by requests that    *)
(* read its entry back                                                     *)
(***************************************************************************)
BatchSearchParams == {SpLondon, SpLondonRent}

NextBatch ==
    \/ served = 0 /\ \E vp \in AllVParams : Start(1, SpLondon, vp)
    \/ /\ served > 0
       /\ \E sp \in BatchSearchParams, vp \in AllVParams :
             Live(CacheKey(sp, vp)) /\ Start(1, sp, vp)
    \/ CacheLookup(1, FALSE)
    \/ \E l \in SeqsUpTo(RentCatalog, MaxRent) : FetchRent(1, TRUE, l)
    \/ \E l \in SeqsUpTo(BuyCatalog, MaxBuy) \cup {OutlierBuyList} :
          FetchBuy(1, TRUE, l)
    \/ GetValuation(1)
    \/ ValueOne(1)
    \/ Rank(1)
    \/ Save(1, FALSE)
    \/ Respond(1)
    \/ Finish(1)

SpecBatch == Init /\ [][NextBatch]_vars

(***************************************************************************)
(* SpecFilter: one computing request up to the outlier filter, over every   *)
(* list of rental prices within the bounds                                 *)
(***************************************************************************)
\* [1, 1, 2, 6] has 6 on its upper bound, [1, 1, 2, 7] has 7 above it
FilterPrices == {1, 2, 6, 7, NaNPrice}

\* a rental listing of price p
PricedRental(p) == Property("r", "Rent Row", p, 0, 0, "RENT", "")

FilterRentLists == SeqsUpTo({PricedRental(p) : p \in FilterPrices}, MaxPrices)

NextFilter ==
    \/ served = 0 /\ Start(1, SpLondon, VpNormal)
    \/ CacheLookup(1, FALSE)
    \/ \E l \in FilterRentLists : FetchRent(1, TRUE, l)
    \/ FetchBuy(1, TRUE, <<B1>>)
    \/ GetValuation(1)

SpecFilter == Init /\ [][NextFilter]_vars

(***************************************************************************)
(* _get_valuation of a request that runs next to another one: the          *)
(* statements that write the attributes of the engine are one action each  *)
(* (GetValuation is their sequence when no other request runs)             *)
(***************************************************************************)
\* lines 116-123: the short-circuit on empty input and the filter
StartBuild(i) ==
    LET r == BuildEstimator(req[i])
    IN  /\ req[i].pc = "get_valuation"
        /\ req' = [req EXCEPT ![i] =
                     IF r.pc = "valuing" THEN [r EXCEPT !.pc = "set_points"] ELSE r]
        /\ UNCHANGED <<redis, now, self_points, self_values, self_average_price, tie, served, ticks,
                       foreign, expired>>

\* lines 125-128: self.points = [...]
SetPoints(i) ==
    /\ req[i].pc = "set_points"
    /\ self_points' = RentalPoints(req[i].rent_properties)
    /\ req' = [req EXCEPT ![i].pc = "extend_points"]
    /\ UNCHANGED <<redis, now, self_values, self_average_price, tie, served, ticks,
                       foreign, expired>>

\* lines 129-131: self.points.extend([...]), on the list the attribute holds
ExtendPoints(i) ==
    /\ req[i].pc = "extend_points"
    /\ self_points' = self_points \o Corners(req[i].rent_properties)
    /\ req' = [req EXCEPT ![i].pc = "set_values"]
    /\ UNCHANGED <<redis, now, self_values, self_average_price, tie, served, ticks,
                       foreign, expired>>

\* line 132: self.values = [...]
SetValues(i) ==
    /\ req[i].pc = "set_values"
    /\ self_values' = [n \in 1..Len(req[i].rent_properties) |->
                          RInt(req[i].rent_properties[n].price)]
    /\ req' = [req EXCEPT ![i].pc = "set_average"]
    /\ UNCHANGED <<redis, now, self_points, self_average_price, tie, served, ticks,
                       foreign, expired>>

\* line 133: self.average_price = sum(self.values) / len(self.values)
SetAverage(i) ==
    /\ req[i].pc = "set_average"
    /\ self_average_price' = RDiv(RSum(self_values), RInt(Len(self_values)))
    /\ req' = [req EXCEPT ![i].pc = "extend_values"]
    /\ UNCHANGED <<redis, now, self_points, self_values, tie, served, ticks,
                       foreign, expired>>

\* line 134: self.values.extend([self.average_price, ...])
ExtendValues(i) ==
    /\ req[i].pc = "extend_values"
    /\ self_values' = self_values \o <<self_average_price, self_average_price,
                                       self_average_price, self_average_price>>
    /\ req' = [req EXCEPT ![i].pc = "valuing", ![i].valuations = <<>>,
                          ![i].idx = 1]
    /\ UNCHANGED <<redis, now, self_points, self_average_price, tie, served, ticks,
                       foreign, expired>>

(***************************************************************************)
(* SpecConc: two requests served by two threads of the server on the one   *)
(* ValuationEngine of the App, with a cache that works                     *)
(***************************************************************************)
\* what the upstream search returns for a location
ConcRentals(params) ==
    IF params.location_id = SpLondon.location_id THEN <<R1, R2, R3>>
    ELSE <<R1, R2, R4>>

ConcBuy == <<B2, B1>>

NextConc ==
    \E i \in Workers :
        \/ \E sp \in LifeSearchParams : Start(i, sp, VpNormal)
        \/ CacheLookup(i, FALSE)
        \/ FetchRent(i, TRUE, ConcRentals(req[i].params))
        \/ FetchBuy(i, TRUE, ConcBuy)
        \/ StartBuild(i)
        \/ SetPoints(i)
        \/ ExtendPoints(i)
        \/ SetValues(i)
        \/ SetAverage(i)
        \/ ExtendValues(i)
        \/ ValueOne(i)
        \/ Rank(i)
        \/ Save(i, FALSE)
        \/ Respond(i)

SpecConc == Init /\ [][NextConc]_vars

(***************************************************************************)
(* SpecKeys: the keys two requests derive, over search parameters and      *)
(* valuation parameters that differ from SpLondon and VpNormal in one      *)
(* field each                                                              *)
(***************************************************************************)
KeySearchParams ==
    { SpLondon,
      SpLondonRent,
      [SpLondon EXCEPT !.location_name = <<"Greater London">>],
      [SpLondon EXCEPT !.location_id = <<"REGION^787">>],
      \* an identifier that holds the text of the next field of the URL
      [SpLondon EXCEPT !.location_id = <<"REGION^87490", "&", "radius=", "0.5">>],
      [SpLondon EXCEPT !.radius = <<"0.5">>],
      [SpLondon EXCEPT !.min_price = 1],
      [SpLondon EXCEPT !.max_price = NoLimit],
      [SpLondon EXCEPT !.min_bedrooms = 2],
      [SpLondon EXCEPT !.max_bedrooms = 4],
      [SpLondon EXCEPT !.property_types = SortedValues({"flat"})],
      [SpLondon EXCEPT !.furnish_types = SortedValues({"furnished"})],
      [SpLondonRent EXCEPT !.furnish_types = SortedValues({"unfurnished"})] }

KeyVParams ==
    { VpNormal,
      [VpNormal EXCEPT !.min_deposit = 1],
      [VpNormal EXCEPT !.max_deposit = 2],
      [VpNormal EXCEPT !.mortgage_length = 2],
      [VpNormal EXCEPT !.mortgage_interest_rate = 600],
      [VpNormal EXCEPT !.investment_increase = 1],
      [VpNormal EXCEPT !.investment_deduction = 1],
      [VpNormal EXCEPT !.rent_increase = 1],
      [VpNormal EXCEPT !.rent_deduction = 1] }

NextKeys ==
    \E i \in Workers, sp \in KeySearchParams, vp \in KeyVParams : Start(i, sp, vp)

SpecKeys == Init /\ [][NextKeys]_vars

(***************************************************************************)
(* Properties                                                              *)
(***************************************************************************)
Finished(r) == r.pc \in {"done", "responded"}

\* both fetches of the request were made and succeeded
Fetched(r) == Len(r.finds) = 2 /\ r.finds[1].ok /\ r.finds[2].ok

\* the valuations of the purchase listings whose scoring succeeds, in the
\* order of the purchase list, over the estimator of the rental listings
ExpectedScored(rent, buy, valuation_params, t) ==
    IF Len(rent) = 0 \/ Len(buy) = 0 THEN <<>>
    ELSE LET kept == FilteredRentals(rent)
             pts  == SamplePoints(kept)
             vls  == SampleValues(kept)
             avg  == AveragePrice(kept)
             H(b) == get_height(pts, vls, avg, b.geo_location.longitude,
                                b.geo_location.latitude, t)
             S(b) == get_score(pts, vls, avg, b, valuation_params, t)
         IN  SelectIdx([n \in 1..Len(buy) |->
                           Valuation(buy[n], H(buy[n]).val, S(buy[n]).val)],
                       {n \in 1..Len(buy) :
                           H(buy[n]).exc = "none" /\ S(buy[n]).exc = "none"})

\* s is in non-increasing order of return on investment
NonIncreasing(s) ==
    \A n \in 1..(Len(s) - 1) :
        RLeq(s[n + 1].return_on_investment, s[n].return_on_investment)

\* the valuations of s with the return on investment x, in their order in s
WithRoi(s, x) == SelectSeq(s, LAMBDA v : v.return_on_investment = x)

\* out is src ranked: non-increasing, and the valuations of equal return
\* keep the order they have in src
RankedStably(out, src) ==
    /\ Len(out) = Len(src)
    /\ NonIncreasing(out)
    /\ \A n \in 1..Len(src) :
          WithRoi(out, src[n].return_on_investment)
              = WithRoi(src, src[n].return_on_investment)

\* the list a computing request returns for the listings it fetched
ExpectedRanking(r) ==
    sorted_valuations(ExpectedScored(r.finds[1].listings, r.finds[2].listings,
                                     r.valuation_params, tie))

\* the list the value v of a Redis entry deserializes to
Deserialized(v) ==
    LET objs == v.body[1].body[1].body
    IN  [n \in 1..Len(objs) |-> ValuationOfObject(objs[n])]

\* C1: when the lookup meets a well-formed payload, the request returns the
\* deserialized cached list, never calls find_properties and performs no
\* cache set
C1_HitReturnsCachedList ==
    \A i \in Workers :
        req[i].get = "hit" =>
            /\ Finished(req[i])
            /\ req[i].ret.outcome = "ok"
            /\ Live(req[i].key)
            /\ req[i].ret.val = Deserialized(redis[req[i].key].value)
            /\ req[i].finds = <<>>
            /\ req[i].sets = 0
            /\ req[i].save = "none"

C1_Witness ==
    \E i \in Workers :
        /\ req[i].get = "hit"
        /\ req[i].pc = "done"
        /\ Len(req[i].ret.val) > 0

\* C2: a lookup that raises or meets a payload that does not deserialize is
\* not propagated: the request goes on to the fetches as on a miss and,
\* when it returns, returns the list computed from the fetched listings and
\* has attempted the cache write
C2_LookupFailureIsMiss ==
    \A i \in Workers :
        req[i].get \in {"raised", "malformed"} =>
            /\ req[i].pc # "cache_get"
            /\ Finished(req[i]) => Len(req[i].finds) >= 1
            /\ req[i].ret.outcome = "raised" =>
                   /\ req[i].ret.exc = "UpstreamFetchError"
                   /\ ~Fetched(req[i])
            /\ Finished(req[i]) /\ Fetched(req[i]) =>
                   /\ req[i].ret.outcome = "ok"
                   /\ req[i].ret.val = ExpectedRanking(req[i])
                   /\ req[i].save # "none"

C2_Witness ==
    \E i \in Workers :
        /\ req[i].get = "malformed"
        /\ req[i].payload.tag = "text"
        /\ req[i].pc = "done"
        /\ req[i].ret.outcome = "ok"
        /\ Len(req[i].ret.val) > 0
        /\ req[i].save = "stored"

\* C3: when the rental fetch or the purchase fetch fails, the failure leaves
\* rank_properties, no list is returned and no cache set is performed
C3_FetchFailurePropagates ==
    \A i \in Workers :
        (\E n \in 1..Len(req[i].finds) : ~req[i].finds[n].ok) =>
            /\ Finished(req[i])
            /\ req[i].ret.outcome = "raised"
            /\ req[i].ret.exc = "UpstreamFetchError"
            /\ req[i].ret.val = <<>>
            /\ req[i].sets = 0
            /\ req[i].save = "none"

C3_Witness ==
    \E i \in Workers :
        /\ req[i].pc = "done"
        /\ Len(req[i].finds) = 2
        /\ req[i].finds[1].ok
        /\ Len(req[i].finds[1].listings) > 0
        /\ ~req[i].finds[2].ok

\* C4: when find_properties returns an empty rental list or an empty
\* purchase list, rank_properties returns an empty list and raises nothing
C4_EmptyInputEmptyRanking ==
    \A i \in Workers :
        /\ Finished(req[i])
        /\ Fetched(req[i])
        /\ (req[i].finds[1].listings = <<>> \/ req[i].finds[2].listings = <<>>)
        => /\ req[i].ret.outcome = "ok"
           /\ req[i].ret.val = <<>>

C4_Witness ==
    \E i \in Workers :
        /\ req[i].pc = "done"
        /\ Fetched(req[i])
        /\ req[i].finds[1].listings = <<>>
        /\ req[i].finds[2].listings # <<>>
        /\ req[i].ret.outcome = "ok"

\* C5: a failure while valuing one purchase listing never aborts the batch:
\* the request returns normally, without the listings that failed and with
\* a valuation for every other listing
C5_FailureNeverAbortsBatch ==
    \A i \in Workers :
        Finished(req[i]) /\ req[i].valued > 0 =>
            /\ req[i].ret.outcome = "ok"
            /\ Len(req[i].ret.val) + Len(req[i].failed) = Len(req[i].buy_properties)

\* C6: the list a computing request returns is in non-increasing order of
\* return on investment, valuations of equal return keep the order of their
\* listings in the purchase list, and the sort of the endpoint keeps the list
C6_RankingStable ==
    \A i \in Workers :
        Finished(req[i]) /\ req[i].get # "hit" /\ req[i].ret.outcome = "ok" =>
            /\ RankedStably(req[i].ret.val,
                            ExpectedScored(req[i].finds[1].listings,
                                           req[i].finds[2].listings,
                                           req[i].valuation_params, tie))
            /\ req[i].pc = "responded" => req[i].response.val = req[i].ret.val

C6_Witness ==
    \E i \in Workers :
        /\ req[i].pc = "responded"
        /\ req[i].get = "miss"
        /\ Len(req[i].response.val) = 2
        /\ req[i].response.val[1].return_on_investment
               = req[i].response.val[2].return_on_investment
        /\ req[i].response.val[1].property.identifier = "b3"
        /\ req[i].response.val[2].property.identifier = "b1"

\* C7: when building the payload or the cache set fails, the failure is
\* swallowed and the request returns the list it computed
C7_SaveFailureSwallowed ==
    \A i \in Workers :
        req[i].save \in {"dumps_failed", "set_failed"} =>
            /\ Finished(req[i])
            /\ req[i].ret.outcome = "ok"
            /\ req[i].ret.val = ExpectedRanking(req[i])

C7_Witness ==
    \E i \in Workers :
        /\ req[i].save = "set_failed"
        /\ req[i].pc = "done"
        /\ Len(req[i].ret.val) = 2

\* C8: a lookup that reads an entry rank_properties stored returns a list
\* equal, record by record and in the same order, to the list the entry
\* was made of
C8_CacheRoundTrip ==
    [][\A i \in Workers :
          /\ req[i].pc = "cache_get"
          /\ req'[i].pc # "cache_get"
          /\ req'[i].get # "raised"
          /\ Live(req[i].key)
          /\ redis[req[i].key].by = "engine"
          => /\ req'[i].get = "hit"
             /\ req'[i].ret.outcome = "ok"
             /\ req'[i].ret.val = redis[req[i].key].src]_vars

C8_Witness ==
    \E i \in Workers :
        /\ req[i].get = "hit"
        /\ req[i].pc = "done"
        /\ Live(req[i].key)
        /\ redis[req[i].key].by = "engine"
        /\ Len(req[i].ret.val) = 2
        /\ req[i].ret.val[1] # req[i].ret.val[2]

\* C9: an entry rank_properties writes expires 1800 seconds after the
\* write; until then a lookup of its key is served from it; once it has
\* expired the key is absent, the lookup misses, and the request that
\* writes the next entry has fetched both listing sets
C9_EntryLivesThirtyMinutes ==
    [][\A i \in Workers :
          /\ req[i].pc = "save" /\ req'[i].save = "stored" =>
                /\ req[i].key \in DOMAIN redis'
                /\ redis'[req[i].key].exp = now + 1800
                /\ redis'[req[i].key].by = "engine"
                /\ Fetched(req[i])
          /\ /\ req[i].pc = "cache_get"
             /\ req'[i].pc # "cache_get"
             /\ req'[i].get # "raised"
             => IF req[i].key \in DOMAIN redis /\ redis[req[i].key].by = "engine"
                THEN /\ now < redis[req[i].key].exp
                     /\ req'[i].get = "hit"
                     /\ req'[i].pc = "done"
                     /\ req'[i].ret.val = redis[req[i].key].src
                ELSE req[i].key \notin DOMAIN redis =>
                        /\ req'[i].get = "miss"
                        /\ req'[i].pc = "fetch_rent"]_vars

C9_Witness ==
    \E i \in Workers :
        /\ req[i].key \in expired
        /\ req[i].get = "miss"
        /\ req[i].save = "stored"
        /\ req[i].pc = "done"
        /\ redis[req[i].key].exp = now + 1800
        /\ now >= 1800

\* C10: once the estimator is built from the rental listings that survive
\* the filter, get_height returns a number at every query coordinate: it
\* never raises
C10_GetHeightTotal ==
    \A i \in Workers :
        req[i].pc = "valuing" =>
            \A b \in BuyCatalog :
                get_height(self_points, self_values, self_average_price,
                           b.geo_location.longitude, b.geo_location.latitude,
                           tie).exc = "none"

\* C11: when exactly one rental listing, of price P, survives the filter,
\* the estimated rental income at the coordinates of every purchase listing
\* is P
C11_SingleSampleReturnsPrice ==
    \A i \in Workers :
        req[i].pc = "valuing" /\ Len(req[i].rent_properties) = 1 =>
            \A b \in BuyCatalog :
                get_height(self_points, self_values, self_average_price,
                           b.geo_location.longitude, b.geo_location.latitude,
                           tie) = Returned(RInt(req[i].rent_properties[1].price))

\* the prices of a list of listings
PricesOf(listings) == [n \in 1..Len(listings) |-> listings[n].price]

\* v lies within Q1 - 1.5 IQR and Q3 + 1.5 IQR of data, bounds included
WithinBounds(data, v) ==
    LET q1 == Percentile(data, 1)
        q3 == Percentile(data, 3)
        w  == RMul(Rat(3, 2), RSub(q3, q1))
    IN  RLeq(RSub(q1, w), RInt(v)) /\ RLeq(RInt(v), RAdd(q3, w))

\* C12: remove_outliers returns exactly the input values that lie within
\* Q1 - 1.5 IQR and Q3 + 1.5 IQR of the input, bounds included, in their
\* order; the output is never longer than the input, and the listings the
\* estimator is built from are the ones with these prices
C12_OutlierBounds ==
    \A i \in Workers :
        Len(req[i].finds) >= 1 /\ req[i].finds[1].listings # <<>> =>
            LET data == PricesOf(req[i].finds[1].listings)
                out  == remove_outliers(data)
            IN  /\ Len(out) <= Len(data)
                /\ (\A n \in 1..Len(data) : ~IsNaN(data[n])) =>
                      /\ out = SelectSeq(data, LAMBDA v : WithinBounds(data, v))
                      /\ \A n \in 1..Len(out) : WithinBounds(data, out[n])
                /\ req[i].pc = "valuing" => PricesOf(req[i].rent_properties) = out

C12_Witness ==
    \E i \in Workers :
        /\ req[i].pc = "valuing"
        /\ PricesOf(req[i].finds[1].listings) = <<1, 7, 1, 2>>
        /\ PricesOf(req[i].rent_properties) = <<1, 1, 2>>

\* C13: when the rental list is not empty and no rental listing survives
\* the filter, the request returns an empty list and raises nothing
C13_NoSurvivorEmptyRanking ==
    \A i \in Workers :
        /\ Finished(req[i])
        /\ Fetched(req[i])
        /\ req[i].finds[1].listings # <<>>
        /\ req[i].finds[2].listings # <<>>
        /\ FilteredRentals(req[i].finds[1].listings) = <<>>
        => /\ req[i].ret.outcome = "ok"
           /\ req[i].ret.val = <<>>

C15_RequestsIsolated ==
    \A i, j \in Workers :
        /\ i # j
        /\ req[j].pc # "idle"
        /\ req[j].key # req[i].key
        /\ Finished(req[i])
        /\ req[i].get = "miss"
        => /\ req[i].ret.outcome = "ok"
           /\ req[i].ret.val = ExpectedRanking(req[i])

\* C16: two requests of the same key that both miss and fetch the same
\* listings both return the list one of them returns alone, and the entry
\* under their key is made of that list
C16_IdenticalRequestsAgree ==
    \A i, j \in Workers :
        /\ i # j
        /\ req[j].key = req[i].key
        /\ Finished(req[i]) /\ Finished(req[j])
        /\ req[i].get = "miss" /\ req[j].get = "miss"
        /\ req[i].finds = req[j].finds
        => /\ req[i].ret.outcome = "ok"
           /\ req[i].ret.val = ExpectedRanking(req[i])
           /\ req[j].ret = req[i].ret
           /\ Live(req[i].key)
           /\ redis[req[i].key].src = ExpectedRanking(req[i])
           /\ Deserialized(redis[req[i].key].value) = ExpectedRanking(req[i])

\* the fields of the search that the claim names: location identifier,
\* radius, price range, bedroom range, property types
SearchFields(params) ==
    <<params.location_id, params.radius, params.min_price, params.max_price,
      params.min_bedrooms, params.max_bedrooms, params.property_types>>

\* C17: the key is the text of the buy-search URL followed by the repr of
\* the valuation parameters; requests that differ in the purchase category
\* alone derive one key, requests that differ in location identifier,
\* radius, price range, bedroom range, property types or a valuation
\* parameter derive different keys
C17_KeyDerivation ==
    \A i, j \in Workers :
        req[i].pc # "idle" /\ req[j].pc # "idle" =>
            /\ req[i].key = <<"valuation:">>
                            \o _url_property_for_sale(req[i].asked).url
                            \o <<"-">>
                            \o ValuationParameters_repr(req[i].valuation_params)
            /\ /\ to_buy(req[i].asked) = to_buy(req[j].asked)
               /\ req[i].valuation_params = req[j].valuation_params
               => req[i].key = req[j].key
            /\ \/ SearchFields(req[i].asked) # SearchFields(req[j].asked)
               \/ req[i].valuation_params # req[j].valuation_params
               => req[i].key # req[j].key

C17_Witness ==
    /\ req[1].pc = "cache_get" /\ req[2].pc = "cache_get"
    /\ req[1].asked = SpLondon /\ req[2].asked = SpLondonRent
    /\ req[1].valuation_params = req[2].valuation_params
    /\ req[1].key = req[2].key

\* C18: two requests that derive the same key issue the same rental search
\* and the same purchase search
C18_KeyCoversSearches ==
    \A i, j \in Workers :
        /\ req[i].pc # "idle" /\ req[j].pc # "idle"
        /\ req[i].key = req[j].key
        => /\ to_url(to_rent(req[i].asked)) = to_url(to_rent(req[j].asked))
           /\ to_url(to_buy(req[i].asked)) = to_url(to_buy(req[j].asked))

\* C19: every valuation of a list rank_properties returns, computed or read
\* from the cache, is the valuation of a listing for sale
C19_ValuationsAreForSale ==
    \A i \in Workers :
        Finished(req[i]) /\ req[i].ret.outcome = "ok" =>
            \A n \in 1..Len(req[i].ret.val) :
                req[i].ret.val[n].property.purchase_category = "BUY"

\* the answer of the endpoint to a ranking that succeeds with no valuation
EmptyRankingResponse == [outcome |-> "ok", val |-> <<>>, exc |-> "none"]

\* C20: when a fetch fails, the answer of the endpoint reports the failure:
\* it differs from the answer to a successful empty ranking (and holds no
\* partial ranking)
C20_FetchFailureReported ==
    \A i \in Workers :
        /\ req[i].pc = "responded"
        /\ \E n \in 1..Len(req[i].finds) : ~req[i].finds[n].ok
        => req[i].response # EmptyRankingResponse

\* the number of valuations of s that are for the listing b
CountFor(s, b) == Cardinality({n \in 1..Len(s) : s[n].property = b})

\* C21: a computing request with rental and purchase listings that returns
\* a list returns one valuation for each purchase listing find_properties
\* gave whose scoring succeeds, as often as the listing comes in the
\* purchase list, and no other valuation; the purchase list itself is
\* left as it was fetched, whatever the prices of its listings
C21_PurchasesNeverFiltered ==
    \A i \in Workers :
        /\ Finished(req[i])
        /\ req[i].get = "miss"
        /\ Fetched(req[i])
        /\ req[i].ret.outcome = "ok"
        /\ req[i].finds[1].listings # <<>>
        /\ req[i].finds[2].listings # <<>>
        => LET buy == req[i].finds[2].listings
               scored == ExpectedScored(req[i].finds[1].listings, buy,
                                        req[i].valuation_params, tie)
               out == req[i].ret.val
           IN  /\ req[i].buy_properties = buy
               /\ Len(out) = Len(scored)
               /\ \A n \in 1..Len(out) : out[n] \in SeqRange(scored)
               /\ \A n \in 1..Len(buy) :
                     CountFor(out, buy[n]) = CountFor(scored, buy[n])

C21_Witness ==
    \E i \in Workers :
        /\ req[i].pc = "done"
        /\ req[i].get = "miss"
        /\ req[i].finds[2].listings = OutlierBuyList
        /\ req[i].ret.outcome = "ok"
        /\ Len(req[i].ret.val) = 4
        /\ CountFor(req[i].ret.val, B1) = 2
        /\ CountFor(req[i].ret.val, B5) = 1

\* C22: a request whose lookup does not hit calls find_properties at most
\* twice: first with its search parameters in category RENT, and, only once
\* that call has returned its listings, with the same parameters in category
\* BUY; when the rental call raises, the request ends with that one call
C22_TwoFetchesInOrder ==
    \A i \in Workers :
        LET f == req[i].finds
        IN  /\ Len(f) <= 2
            /\ Len(f) >= 1 => f[1].params = to_rent(req[i].asked)
                              /\ f[1].category = "RENT"
            /\ Len(f) = 2 => /\ f[1].ok
                             /\ f[2].params = to_buy(req[i].asked)
                             /\ f[2].category = "BUY"
                             /\ SearchFields(f[2].params) = SearchFields(f[1].params)
            /\ req[i].pc = "fetch_rent" => f = <<>>
            /\ req[i].pc = "fetch_buy" => Len(f) = 1 /\ f[1].ok
            /\ Finished(req[i]) /\ req[i].get # "hit" =>
                  IF f[1].ok THEN Len(f) = 2 ELSE Len(f) = 1

C22_Witness ==
    \E i \in Workers :
        /\ req[i].pc = "done"
        /\ req[i].get = "miss"
        /\ Len(req[i].finds) = 2
        /\ req[i].finds[1].listings = <<R1, R2>>
        /\ req[i].finds[2].ok
        /\ req[i].finds[2].listings = <<B2, B1>>
        /\ req[i].ret.outcome = "ok"

\* C23: a computing request that ends with an empty list writes an entry
\* for its key as for any other list (unless the Redis call fails), and a
\* request that looks a key up while the entry of an empty list is alive
\* returns the empty list without calling find_properties
C23_EmptyRankingCached ==
    [][\A i \in Workers :
          /\ /\ req[i].pc = "save"
             /\ req[i].valuations = <<>>
             /\ req'[i].save = "stored"
             => /\ req'[i].ret.val = <<>>
                /\ req'[i].sets = req[i].sets + 1
                /\ req[i].key \in DOMAIN redis'
                /\ redis'[req[i].key].src = <<>>
                /\ redis'[req[i].key].by = "engine"
                /\ redis'[req[i].key].exp = now + 1800
          /\ /\ req[i].pc = "cache_get"
             /\ req'[i].pc # "cache_get"
             /\ req'[i].get # "raised"
             /\ Live(req[i].key)
             /\ redis[req[i].key].by = "engine"
             /\ redis[req[i].key].src = <<>>
             => /\ req'[i].get = "hit"
                /\ req'[i].pc = "done"
                /\ req'[i].ret.outcome = "ok"
                /\ req'[i].ret.val = <<>>
                /\ req'[i].finds = <<>>]_vars

\* a second request is served the empty list fifteen minutes after the
\* first one wrote it
C23_Witness ==
    \E i \in Workers :
        /\ served = 2
        /\ ticks = 1
        /\ req[i].pc = "done"
        /\ req[i].get = "hit"
        /\ req[i].finds = <<>>
        /\ req[i].ret.val = <<>>
        /\ redis[req[i].key].by = "engine"
        /\ redis[req[i].key].src = <<>>
        /\ redis[req[i].key].exp = 1800

\* the two conditions get_score refuses, read off the valuation parameters
ZeroRate(valuation_params) == valuation_params.mortgage_interest_rate = 0

ZeroCost(valuation_params) ==
    valuation_params.max_deposit + valuation_params.investment_increase
        - valuation_params.investment_deduction = 0

\* C24: within one request the listings left out by the loop are none or
\* all of those valued so far; a request that returns a list has left out
\* none when neither condition holds, and has left out every purchase
\* listing and returns the empty list when its rate is zero or (its
\* mortgage length not being zero) its cost is zero
C24_ScoringFailuresUniform ==
    \A i \in Workers :
        LET r == req[i]
            vp == r.valuation_params
        IN  /\ Len(r.failed) \in {0, r.valued}
            /\ /\ Finished(r)
               /\ r.get = "miss"
               /\ r.ret.outcome = "ok"
               /\ r.valued > 0
               => /\ r.valued = Len(r.finds[2].listings)
                  /\ IF ZeroRate(vp) \/ ZeroCost(vp)
                     THEN Len(r.failed) = r.valued /\ r.ret.val = <<>>
                     ELSE r.failed = <<>> /\ Len(r.ret.val) = r.valued

C24_Witness ==
    \E i \in Workers :
        /\ req[i].pc = "done"
        /\ req[i].get = "miss"
        /\ ZeroCost(req[i].valuation_params)
        /\ ~ZeroRate(req[i].valuation_params)
        /\ req[i].finds[2].listings = <<B1, B2>>
        /\ Len(req[i].failed) = 2
        /\ req[i].ret.outcome = "ok"
        /\ req[i].ret.val = <<>>

\* C25: of a rental list that is not empty and whose prices are all
\* numbers, remove_outliers keeps at least one price, so the request gets
\* past the filter with at least one rental listing and builds the bounding
\* box and the mean price from the listings kept
C25_FilterKeepsOne ==
    \A i \in Workers :
        /\ Len(req[i].finds) >= 1
        /\ req[i].finds[1].listings # <<>>
        /\ \A n \in 1..Len(req[i].finds[1].listings) :
               ~IsNaN(req[i].finds[1].listings[n].price)
        => LET data == PricesOf(req[i].finds[1].listings)
               kept == FilteredRentals(req[i].finds[1].listings)
           IN  /\ Len(remove_outliers(data)) >= 1
               /\ Len(kept) >= 1
               /\ Len(req[i].finds) = 2 /\ req[i].pc # "get_valuation" =>
                     /\ req[i].pc = "valuing"
                     /\ req[i].rent_properties = kept
                     /\ self_points = SamplePoints(kept)
                     /\ Len(self_points) = Len(kept) + 4
                     /\ self_average_price = AveragePrice(kept)

C25_Witness ==
    \E i \in Workers :
        /\ req[i].pc = "valuing"
        /\ PricesOf(req[i].finds[1].listings) = <<7, 1, 1, 1>>
        /\ PricesOf(req[i].rent_properties) = <<1, 1, 1>>
        /\ Len(self_points) = 7
        /\ self_average_price = RInt(1)

====
